---- MODULE Spec2Model ----
(***************************************************************************)
(* Model of the location_history library (src/src/lib.rs) and of the       *)
(* batch part of its command line front end (src/src/main.rs).             *)
(*                                                                         *)
(* Numbers.  Timestamps are whole seconds (DateTime::timestamp()).         *)
(* Coordinates are integers in "arc kilometres": one unit of latitude or   *)
(* longitude is the angle that spans 1000 m on a great circle of the mean  *)
(* Earth radius, so a degree is about 111.195 units.  Distances are whole  *)
(* metres.  Floating point rounding is not modelled: a speed is the exact  *)
(* rational num/den.                                                       *)
(***************************************************************************)
EXTENDS Integers, Sequences, FiniteSets, TLC

VARIABLES locations, \* the collection an operation is called on (self);
                     \* in main, the Vec `locations` that the consumer fills
          arg,       \* the argument of the call, <<>> when it has none
          op,        \* the operation that is running or has run
          pc,        \* "ready", "loop" (inside filter_outliers), "done", "panic"
          tmp,       \* filter_outliers: the accumulator `tmp`
          idx,       \* filter_outliers: number of candidates consumed
          out,       \* the value returned by the operation
          doc,       \* the input document read by deserialize_streaming
          ppc,       \* position of the producer thread
          pos,       \* number of array elements the producer has decoded
          chan,      \* the records sent on the channel and not yet received
          rx,        \* the receiving end: "alive" or "dropped"
          cpc,       \* position of the main thread ("idle": main is not running)
          locations_count,     \* main: locations_count
          filtered_locations,  \* main: filtered_locations
          join_result,         \* main: result of reader_jh.join(), "none" before
          cfg        \* main: the parsed arguments

pipeVars == <<doc, ppc, pos, chan, rx, cpc, locations_count, filtered_locations,
              join_result, cfg>>

vars == <<locations, arg, op, pc, tmp, idx, out, doc, ppc, pos, chan, rx, cpc,
          locations_count, filtered_locations, join_result, cfg>>

----------------------------------------------------------------------------
(* Bounds of the model *)

MaxLen == 3
MaxQueryLen == 3
MaxObs == 2
MaxPairs == 2
MaxDoc == 3

----------------------------------------------------------------------------
(* Arithmetic helpers *)

Abs(x) == IF x < 0 THEN -x ELSE x

\* Rust integer division truncates toward zero (TLA+ \div floors).
TruncDiv(a, b) == IF a >= 0 THEN a \div b ELSE -((-a) \div b)

RECURSIVE ISqrtBetween(_, _, _)
ISqrtBetween(x, lo, hi) ==
    IF hi - lo <= 1 THEN lo
    ELSE LET mid == (lo + hi) \div 2
         IN  IF mid * mid <= x THEN ISqrtBetween(x, mid, hi)
                               ELSE ISqrtBetween(x, lo, mid)

\* f64::sqrt, to the precision of the model (floor of the square root);
\* arguments stay below 46340 * 46340
ISqrt(x) == ISqrtBetween(x, 0, 46340)

Last(s) == s[Len(s)]

----------------------------------------------------------------------------
(* Records *)

\* Option<T>
Some(v) == [some |-> TRUE, value |-> v]
None == [some |-> FALSE]

\* main is not running: the library is called directly
PipelineIdle ==
    /\ doc = [has_locations |-> TRUE, items |-> <<>>]
    /\ ppc = "done"
    /\ pos = 0
    /\ chan = <<>>
    /\ rx = "dropped"
    /\ cpc = "idle"
    /\ locations_count = 0
    /\ filtered_locations = <<>>
    /\ join_result = "none"
    /\ cfg = None

Location(ts, lat, lng, acts) ==
    [timestamp |-> ts, latitude |-> lat, longitude |-> lng, activities |-> acts]

\* impl Into<Coord<f64>> for &Location: x is set from the latitude and y
\* from the longitude.
IntoCoord(loc) == [x |-> loc.latitude, y |-> loc.longitude]

\* impl Into<Point<f64>> for &Location
IntoPoint(loc) == IntoCoord(loc)

\* 60 degrees of arc in model units (111.195 units per degree)
Deg60 == (60 * 111195) \div 1000

\* Twice the cosine of a latitude, from a two-entry table: 2*cos(0) = 2 for
\* latitudes nearer to 0 than to 60 degrees, 2*cos(60) = 1 otherwise.
CosX2(lat) == IF 2 * Abs(lat) < Deg60 THEN 2 ELSE 1

\* geo::HaversineDistance for Point: the point's y is its latitude and its x
\* is its longitude.  a = hav(dlat) + cos(lat1) cos(lat2) hav(dlng), taken to
\* second order in the coordinate differences; the result is in metres, to
\* 100 m (to 1000 m when a difference exceeds 3000 km).
PointHaversineDistance(p1, p2) ==
    LET dLat == p2.y - p1.y
        dLng == p2.x - p1.x
        cc   == CosX2(p1.y) * CosX2(p2.y)
    IN  IF Abs(dLat) < 3000 /\ Abs(dLng) < 3000
        THEN ISqrt(100 * dLat * dLat + 25 * cc * dLng * dLng) * 100
        ELSE ISqrt(dLat * dLat + (cc * dLng * dLng) \div 4) * 1000

\* Location::haversine_distance
haversine_distance(self, other) ==
    PointHaversineDistance(IntoPoint(self), IntoPoint(other))

\* Location::speed_kmh: None, or Some(num/den) km/h
speed_kmh_no_upper(self, other) ==
    LET dist == haversine_distance(self, other)
        time == self.timestamp - other.timestamp
    IN  IF time > 0
        THEN [some |-> TRUE, num |-> dist * 36, den |-> time * 10]
        ELSE [some |-> FALSE]

speed_kmh(self, other) ==
    LET dist == haversine_distance(self, other)
        time == self.timestamp - other.timestamp
    IN  IF time > 0 /\ time < 600
        THEN [some |-> TRUE, num |-> dist * 36, den |-> time * 10]
        ELSE [some |-> FALSE]

\* speed < 300.0
SpeedBelow300(speed) == speed.num < 300 * speed.den

----------------------------------------------------------------------------
(* sort_chronological: a stable sort by timestamp *)

RECURSIVE InsertByTime(_, _)
InsertByTime(s, x) ==
    IF s = <<>> THEN <<x>>
    ELSE IF Last(s).timestamp <= x.timestamp THEN Append(s, x)
    ELSE Append(InsertByTime(SubSeq(s, 1, Len(s) - 1), x), Last(s))

RECURSIVE StableSortByTime(_)
StableSortByTime(s) ==
    IF s = <<>> THEN <<>>
    ELSE InsertByTime(StableSortByTime(SubSeq(s, 1, Len(s) - 1)), Last(s))

sort_chronological_noop(s) == s

sort_chronological(s) == StableSortByTime(s)

IsSorted(s) == \A i \in 1..(Len(s) - 1) : s[i].timestamp <= s[i + 1].timestamp

Count(x, s) == Cardinality({i \in 1..Len(s) : s[i] = x})

\* sequences over S of length at most n
SeqsUpTo(S, n) == UNION {[1..k -> S] : k \in 0..n}

----------------------------------------------------------------------------
(* filter_outliers, one action per step of its body *)

\* let mut tmp = vec![self[0].clone()]; indexing an empty Vec panics
OutliersBegin ==
    /\ pc = "ready"
    /\ op' = "filter_outliers"
    /\ IF Len(locations) = 0
       THEN /\ pc' = "panic"
            /\ UNCHANGED <<tmp, idx>>
       ELSE /\ pc' = "loop"
            /\ tmp' = <<locations[1]>>
            /\ idx' = 0
    /\ UNCHANGED <<locations, arg, out>>
    /\ UNCHANGED pipeVars

\* the decision of one iteration of `for location in self.into_iter()`
OutlierKeeps(location, tail) ==
    LET speed == speed_kmh(location, tail)
    IN  IF speed.some THEN SpeedBelow300(speed) ELSE TRUE

OutliersStep ==
    /\ pc = "loop"
    /\ idx < Len(locations)
    /\ LET location == locations[idx + 1]
       IN  tmp' = IF OutlierKeeps(location, Last(tmp))
                  THEN Append(tmp, location)
                  ELSE tmp
    /\ idx' = idx + 1
    /\ UNCHANGED <<locations, arg, op, pc, out>>
    /\ UNCHANGED pipeVars

\* tmp.sort_chronological(); tmp
OutliersReturn ==
    /\ pc = "loop"
    /\ idx = Len(locations)
    /\ out' = sort_chronological(tmp)
    /\ pc' = "done"
    /\ UNCHANGED <<locations, arg, op, tmp, idx>>
    /\ UNCHANGED pipeVars

----------------------------------------------------------------------------
(* Specification of filter_outliers on every collection of at most MaxLen  *)
(* records, in any arrival order.                                          *)

OutlierTimes == {0, 60, 120, 600, 601}
OutlierLongitudes == {0, 1, 5, 51}
OutlierRecords ==
    {Location(t, 0, y, None) : t \in OutlierTimes, y \in OutlierLongitudes}

InitOutliers ==
    /\ locations \in SeqsUpTo(OutlierRecords, MaxLen)
    /\ arg = <<>>
    /\ op = "none"
    /\ pc = "ready"
    /\ tmp = <<>>
    /\ idx = 0
    /\ out = <<>>
    /\ PipelineIdle

NextOutliers == OutliersBegin \/ OutliersStep \/ OutliersReturn

SpecOutliers == InitOutliers /\ [][NextOutliers]_vars

----------------------------------------------------------------------------
(* Claims about filter_outliers (SpecOutliers) *)

Returned(name) == pc = "done" /\ op = name

\* The step that is about to decide on a candidate, and its operands
Deciding == pc = "loop" /\ idx < Len(locations)
Candidate == locations[idx + 1]
Elapsed == Candidate.timestamp - Last(tmp).timestamp
\* distance_m / elapsed_s * 3.6 < 300, for elapsed_s > 0
ImpliedBelow300 == haversine_distance(Candidate, Last(tmp)) * 36 < 300 * 10 * Elapsed

\* C1: filter_outliers never adds records: every record occurs in the output
\* at most as many times as in the input (so a one-record input gives a
\* one-record output), and for A(t=0), B(t=60, above 300 km/h from A),
\* C(t=120, below 300 km/h from A) the output is exactly <<A, C>>.
C1_NeverAddsRecords ==
    Returned("filter_outliers") =>
        /\ \A i \in 1..Len(out) : Count(out[i], out) <= Count(out[i], locations)
        /\ Len(out) <= Len(locations)
        /\ locations = <<Location(0, 0, 0, None), Location(60, 0, 51, None),
                         Location(120, 0, 1, None)>>
              => out = <<Location(0, 0, 0, None), Location(120, 0, 1, None)>>

\* C2: filter_outliers on an empty collection ends in a defined, recoverable
\* error outcome, not in a panic.
C2_EmptyIsRecoverable ==
    (op = "filter_outliers" /\ locations = <<>>) => pc # "panic"

\* C3: a candidate whose elapsed time since the last accumulated record is
\* from 1 to 600 seconds inclusive is kept if and only if its implied speed
\* is strictly below 300 km/h.
C3_KeptIffBelow300 ==
    [][(Deciding /\ idx' = idx + 1 /\ Elapsed >= 1 /\ Elapsed <= 600)
         => ((tmp' = Append(tmp, Candidate)) <=> ImpliedBelow300)]_vars

\* C4: a candidate whose elapsed time since the last accumulated record is
\* <= 0 s or > 600 s is always kept, whatever its distance, and becomes the
\* new tail of the accumulator.
C4_GapAlwaysKept ==
    [][(Deciding /\ idx' = idx + 1 /\ (Elapsed <= 0 \/ Elapsed > 600))
         => (tmp' = Append(tmp, Candidate) /\ Last(tmp') = Candidate)]_vars

\* A candidate 601 s and 51 km after the accumulator's tail has just been
\* kept, while the input record before it had been discarded.
C4_Witness ==
    /\ pc = "loop" /\ op = "filter_outliers"
    /\ idx >= 3 /\ Len(tmp) >= 2
    /\ Count(locations[idx], locations) = 1
    /\ Last(tmp) = locations[idx]
    /\ LET prevTail == tmp[Len(tmp) - 1]
       IN  /\ Last(tmp).timestamp - prevTail.timestamp = 601
           /\ haversine_distance(Last(tmp), prevTail) >= 51000
           /\ locations[idx - 1] # prevTail

\* C5: for every non-empty input in any arrival order, the collection
\* returned by filter_outliers is sorted ascending by timestamp.
C5_OutputSorted ==
    Returned("filter_outliers") => IsSorted(out)

\* An input that is not in time order, whose accumulator was not either, has
\* been filtered.
C5_Witness ==
    /\ Returned("filter_outliers")
    /\ ~IsSorted(locations) /\ ~IsSorted(tmp)
    /\ Len(out) >= 3

----------------------------------------------------------------------------
(* find_closest and average_time *)

\* <[T]>::binary_search_by(|x| x.timestamp.cmp(&time)) on a slice sorted by
\* timestamp: Ok(i) for any one index i (from 0) whose element compares
\* Equal, else Err(i) with i the index where the key could be inserted.
BinarySearchBy(s, time) ==
    LET matches == {i \in 1..Len(s) : s[i].timestamp = time}
        below   == {i \in 1..Len(s) : s[i].timestamp < time}
    IN  IF matches # {}
        THEN {[ok |-> TRUE, index |-> i - 1] : i \in matches}
        ELSE {[ok |-> FALSE, index |-> Cardinality(below)]}

\* The body of find_closest after the search returned `result`.
find_closest_prev(s, result) ==
    LET x == result.index
        index == IF result.ok THEN Some(x)
                 ELSE IF x > 0 /\ x < Len(s) THEN Some(x - 1) ELSE None
    IN  IF index.some /\ index.value < Len(s)
        THEN Some(s[index.value + 1])
        ELSE None

find_closest_strict(s, result) ==
    LET x == result.index
        index == IF x > 0 /\ x < Len(s) THEN Some(x) ELSE None
    IN  IF index.some /\ index.value < Len(s)
        THEN Some(s[index.value + 1])
        ELSE None

find_closest(s, result) ==
    LET x == result.index
        index == IF result.ok THEN Some(x)
                 ELSE IF x > 0 /\ x < Len(s) THEN Some(x) ELSE None
    IN  IF index.some /\ index.value < Len(s)
        THEN Some(s[index.value + 1])
        ELSE None

QueryTimes == {-5, 0, 10, 15, 20, 25}

FindClosest ==
    /\ pc = "ready"
    /\ \E time \in QueryTimes :
         \E result \in BinarySearchBy(locations, time) :
            /\ arg' = time
            /\ out' = find_closest(locations, result)
    /\ op' = "find_closest"
    /\ pc' = "done"
    /\ UNCHANGED <<locations, tmp, idx>>
    /\ UNCHANGED pipeVars

\* the loop of average_time: `time` after the iterations 1..n-1
RECURSIVE SumDeltas(_, _)
SumDeltas(s, n) ==
    IF n <= 1 THEN 0
    ELSE SumDeltas(s, n - 1) + (s[n].timestamp - s[n - 1].timestamp)

\* time / (self.len() as i64); an i64 division by zero panics
AverageTime ==
    /\ pc = "ready"
    /\ op' = "average_time"
    /\ IF Len(locations) = 0
       THEN pc' = "panic" /\ UNCHANGED out
       ELSE /\ out' = TruncDiv(SumDeltas(locations, Len(locations)), Len(locations))
            /\ pc' = "done"
    /\ UNCHANGED <<locations, arg, tmp, idx>>
    /\ UNCHANGED pipeVars

(* Specification of the two queries on every collection of at most         *)
(* MaxQueryLen records that is sorted by timestamp.                        *)

QueryRecords == {Location(t, 0, y, None) : t \in {0, 10, 20}, y \in {0, 1}}

InitQuery ==
    /\ locations \in {s \in SeqsUpTo(QueryRecords, MaxQueryLen) : IsSorted(s)}
    /\ arg = <<>>
    /\ op = "none"
    /\ pc = "ready"
    /\ tmp = <<>>
    /\ idx = 0
    /\ out = <<>>
    /\ PipelineIdle

NextQuery == FindClosest \/ AverageTime

SpecQuery == InitQuery /\ [][NextQuery]_vars

----------------------------------------------------------------------------
(* Claims about find_closest and average_time (SpecQuery) *)

Timestamps(s) == [i \in 1..Len(s) |-> s[i].timestamp]

\* the insertion index of t: the number of records earlier than t
InsertionIndex(s, t) == Cardinality({i \in 1..Len(s) : s[i].timestamp < t})

\* C6: on a sorted collection find_closest(t) returns a record whose
\* timestamp equals t when one exists; otherwise, with i the insertion index
\* of t, the record at index i when 0 < i < length and no match when i = 0
\* or i = length.  For records at 0, 10, 20: -5 gives no match, 10 the record
\* at 10, 15 the record at 20, 25 no match.
C6_FindClosest ==
    Returned("find_closest") =>
        LET i == InsertionIndex(locations, arg)
        IN  /\ IF \E k \in 1..Len(locations) : locations[k].timestamp = arg
               THEN out.some /\ out.value.timestamp = arg
               ELSE IF 0 < i /\ i < Len(locations)
                    THEN out = Some(locations[i + 1])
                    ELSE out = None
            /\ Timestamps(locations) = <<0, 10, 20>> =>
                  /\ arg \in {-5, 25} => out = None
                  /\ arg = 10 => out = Some(locations[2])
                  /\ arg = 15 => out = Some(locations[3])

\* The query 15 on records at 0, 10, 20 has returned the record at 20.
C6_Witness ==
    /\ Returned("find_closest")
    /\ Timestamps(locations) = <<0, 10, 20>>
    /\ arg = 15
    /\ out.some /\ out.value.timestamp = 20

\* C7 as stated: on a sorted non-empty collection find_closest(t) yields no
\* match for every t at or before the first record's timestamp and for every
\* t at or after the last record's timestamp.
C7_NoMatchAtOrOutsideEnds ==
    (Returned("find_closest") /\ Len(locations) > 0) =>
        ((arg <= locations[1].timestamp \/ arg >= Last(locations).timestamp)
            => out = None)

\* C7 as amended: on a sorted non-empty collection find_closest(t) yields no
\* match exactly for the t strictly before the first record's timestamp or
\* strictly after the last record's timestamp; for t equal to the first or
\* the last timestamp it returns a record with that timestamp.
C7_NoMatchOutsideEnds ==
    (Returned("find_closest") /\ Len(locations) > 0) =>
        /\ out.some <=> (locations[1].timestamp <= arg
                          /\ arg <= Last(locations).timestamp)
        /\ arg \in {locations[1].timestamp, Last(locations).timestamp}
              => (out.some /\ out.value.timestamp = arg)

\* A query at the first timestamp of a collection that spans some time has
\* returned a record.
C7_Witness ==
    /\ Returned("find_closest")
    /\ Len(locations) >= 2
    /\ locations[1].timestamp < Last(locations).timestamp
    /\ arg = locations[1].timestamp
    /\ out.some

\* C8: for n >= 2 records average_time returns the mean of the n-1 deltas
\* between adjacent records (sum of later minus earlier over adjacent pairs,
\* divided by n-1); records at 0, 10, 20 give 10; the result is not negative
\* for sorted input.
C8_MeanOfDeltas ==
    (Returned("average_time") /\ Len(locations) >= 2) =>
        /\ out = TruncDiv(SumDeltas(locations, Len(locations)), Len(locations) - 1)
        /\ Timestamps(locations) = <<0, 10, 20>> => out = 10
        /\ out >= 0

----------------------------------------------------------------------------
(* Activities.  A String is the sequence of its characters. *)

Str_IN_VEHICLE == <<"I", "N", "_", "V", "E", "H", "I", "C", "L", "E">>
Str_EXITING_VEHICLE == <<"E", "X", "I", "T", "I", "N", "G", "_", "V", "E", "H", "I", "C", "L", "E">>
Str_ON_BICYCLE == <<"O", "N", "_", "B", "I", "C", "Y", "C", "L", "E">>
Str_ON_FOOT == <<"O", "N", "_", "F", "O", "O", "T">>
Str_RUNNING == <<"R", "U", "N", "N", "I", "N", "G">>
Str_STILL == <<"S", "T", "I", "L", "L">>
Str_TILTING == <<"T", "I", "L", "T", "I", "N", "G">>
Str_UNKNOWN == <<"U", "N", "K", "N", "O", "W", "N">>
Str_WALKING == <<"W", "A", "L", "K", "I", "N", "G">>
\* a raw label that is not the name of any ActivityType (as in tests::it_works)
Str_still == <<"s", "t", "i", "l", "l">>

ActivityType == {"IN_VEHICLE", "EXITING_VEHICLE", "ON_BICYCLE", "ON_FOOT", "RUNNING", "STILL", "TILTING", "UNKNOWN", "WALKING"}

\* impl Into<ActivityType> for Activity
IntoActivityType(raw) ==
    CASE raw = Str_IN_VEHICLE -> "IN_VEHICLE"
      [] raw = Str_EXITING_VEHICLE -> "EXITING_VEHICLE"
      [] raw = Str_ON_BICYCLE -> "ON_BICYCLE"
      [] raw = Str_ON_FOOT -> "ON_FOOT"
      [] raw = Str_RUNNING -> "RUNNING"
      [] raw = Str_STILL -> "STILL"
      [] raw = Str_TILTING -> "TILTING"
      [] raw = Str_UNKNOWN -> "UNKNOWN"
      [] raw = Str_WALKING -> "WALKING"
      [] OTHER -> "UNKNOWN"

\* impl Into<String> for &ActivityType
IntoString(ty) ==
    CASE ty = "IN_VEHICLE" -> Str_IN_VEHICLE
      [] ty = "EXITING_VEHICLE" -> Str_EXITING_VEHICLE
      [] ty = "ON_BICYCLE" -> Str_ON_BICYCLE
      [] ty = "ON_FOOT" -> Str_ON_FOOT
      [] ty = "RUNNING" -> Str_RUNNING
      [] ty = "STILL" -> Str_STILL
      [] ty = "TILTING" -> Str_TILTING
      [] ty = "UNKNOWN" -> Str_UNKNOWN
      [] ty = "WALKING" -> Str_WALKING

Activity(raw, confidence) == [activity_type |-> raw, confidence |-> confidence]
Activities(ts, acts) == [timestamp |-> ts, activities |-> acts]

\* HashMap<ActivityType, i32> is a function on the set of its keys.
EmptyMap == [k \in {} |-> 0]

\* result.insert(act_type, current_confidence + act_confidence), or
\* result.insert(act_type, act_confidence) for a new key
MapAdd(m, k, v) ==
    IF k \in DOMAIN m THEN [m EXCEPT ![k] = @ + v] ELSE m @@ (k :> v)

\* impl Into<HashMap<ActivityType, i32>> for &Activities, after the first n
\* entries of self.activities
RECURSIVE IntoHashMapFrom(_, _)
IntoHashMapFrom(acts, n) ==
    IF n = 0 THEN EmptyMap
    ELSE MapAdd(IntoHashMapFrom(acts, n - 1),
                IntoActivityType(acts[n].activity_type), acts[n].confidence)

IntoHashMap(activity_vec) ==
    IntoHashMapFrom(activity_vec.activities, Len(activity_vec.activities))

\* for (k, v) in activities.iter() { *all_activities.entry(*k).or_insert(0) += v }
MergeInto_overwrite(all, m) ==
    [k \in DOMAIN all \cup DOMAIN m |-> IF k \in DOMAIN m THEN m[k] ELSE all[k]]

MergeInto(all, m) ==
    [k \in DOMAIN all \cup DOMAIN m |->
        (IF k \in DOMAIN all THEN all[k] ELSE 0) + (IF k \in DOMAIN m THEN m[k] ELSE 0)]

\* all_activities of merged_activities after the first n observations
RECURSIVE AllActivitiesFrom(_, _)
AllActivitiesFrom(acts, n) ==
    IF n = 0 THEN EmptyMap
    ELSE MergeInto(AllActivitiesFrom(acts, n - 1), IntoHashMap(acts[n]))

AllActivities(self) ==
    IF self.activities.some
    THEN AllActivitiesFrom(self.activities.value, Len(self.activities.value))
    ELSE EmptyMap

\* The orders in which a HashMap with key set K may be iterated
IterationOrders(K) ==
    {f \in [1..Cardinality(K) -> K] : \A i, j \in DOMAIN f : f[i] = f[j] => i = j}

\* sort_by(|a, b| b.confidence.cmp(&a.confidence)): stable, descending
RECURSIVE InsertByConfidence(_, _)
InsertByConfidence(s, x) ==
    IF s = <<>> THEN <<x>>
    ELSE IF Last(s).confidence >= x.confidence THEN Append(s, x)
    ELSE Append(InsertByConfidence(SubSeq(s, 1, Len(s) - 1), x), Last(s))

RECURSIVE SortByConfidenceDesc(_)
SortByConfidenceDesc(s) ==
    IF s = <<>> THEN <<>>
    ELSE InsertByConfidence(SortByConfidenceDesc(SubSeq(s, 1, Len(s) - 1)), Last(s))

\* Location::merged_activities, for one iteration order of all_activities
merged_activities(self, order) ==
    LET all == AllActivities(self)
        activities == [i \in 1..Len(order) |-> Activity(IntoString(order[i]), all[order[i]])]
    IN  Activities(self.timestamp, SortByConfidenceDesc(activities))

MergedActivities ==
    /\ pc = "ready"
    /\ \E i \in 1..Len(locations) :
         \E order \in IterationOrders(DOMAIN AllActivities(locations[i])) :
            /\ arg' = i
            /\ out' = merged_activities(locations[i], order)
    /\ op' = "merged_activities"
    /\ pc' = "done"
    /\ UNCHANGED <<locations, tmp, idx>>
    /\ UNCHANGED pipeVars

----------------------------------------------------------------------------
(* filter_by_activity *)

\* the alternatives of a brace group: the pieces of `inner` between commas
BraceAlternatives(inner) ==
    LET cuts == {0, Len(inner) + 1} \cup {i \in 1..Len(inner) : inner[i] = ","}
    IN  {SubSeq(inner, a + 1, b - 1) :
            <<a, b>> \in {c \in cuts \X cuts :
                            c[1] < c[2] /\ \A m \in cuts : ~(c[1] < m /\ m < c[2])}}

\* glob_match::glob_match(pattern, string) for patterns made of literal
\* characters, `?`, `*` and one level of `{a,b}` alternation
RECURSIVE glob_match(_, _)
glob_match(p, str) ==
    IF p = <<>> THEN str = <<>>
    ELSE IF Head(p) = "*"
         THEN glob_match(Tail(p), str) \/ (str # <<>> /\ glob_match(p, Tail(str)))
    ELSE IF Head(p) = "?"
         THEN str # <<>> /\ glob_match(Tail(p), Tail(str))
    ELSE IF Head(p) = "{" /\ \E i \in 1..Len(p) : p[i] = "}"
         THEN LET close == CHOOSE i \in 1..Len(p) :
                              p[i] = "}" /\ \A j \in 1..(i - 1) : p[j] # "}"
                  rest  == SubSeq(p, close + 1, Len(p))
              IN  \E alt \in BraceAlternatives(SubSeq(p, 2, close - 1)) :
                     glob_match(alt \o rest, str)
    ELSE str # <<>> /\ Head(p) = Head(str) /\ glob_match(Tail(p), Tail(str))

\* Iterator::max_by_key(|x| x.confidence): None for an empty iterator; if
\* several elements are equally maximum, the last one is returned.
max_by_key_first(acts) ==
    IF acts = <<>> THEN None
    ELSE Some(acts[CHOOSE i \in 1..Len(acts) :
                     /\ \A j \in 1..Len(acts) : acts[j].confidence <= acts[i].confidence
                     /\ \A j \in 1..(i - 1) : acts[j].confidence < acts[i].confidence])

max_by_key(acts) ==
    IF acts = <<>> THEN None
    ELSE Some(acts[CHOOSE i \in 1..Len(acts) :
                     /\ \A j \in 1..Len(acts) : acts[j].confidence <= acts[i].confidence
                     /\ \A j \in (i + 1)..Len(acts) : acts[j].confidence < acts[i].confidence])

\* the body of the loop over one location: is it pushed onto tmp?
ActivityKeeps(location, activity_type) ==
    /\ location.activities.some
    /\ \E k \in 1..Len(location.activities.value) :
          LET activity == max_by_key(location.activities.value[k].activities)
          IN  activity.some /\ glob_match(activity_type, activity.value.activity_type)

filter_by_activity(self, activity_type) ==
    sort_chronological(SelectSeq(self, LAMBDA location : ActivityKeeps(location, activity_type)))

Pat_ON_any == <<"O", "N", "_", "*">>
Pat_brace == <<"{", "O", "N", "_", "F", "O", "O", "T", ",", "S", "T", "I", "L", "L", "}">>
Pat_any == <<"*">>
Patterns == {Pat_ON_any, Str_STILL, Pat_brace, Pat_any}

FilterByActivity ==
    /\ pc = "ready"
    /\ \E activity_type \in Patterns :
         /\ arg' = activity_type
         /\ out' = filter_by_activity(locations, activity_type)
    /\ op' = "filter_by_activity"
    /\ pc' = "done"
    /\ UNCHANGED <<locations, tmp, idx>>
    /\ UNCHANGED pipeVars

\* list_activities: the HashSet of every act.activity_type of every activity
\* of every location
ActivitiesSet_decoded(self) ==
    {IntoString(IntoActivityType(
        self[i].activities.value[k].activities[n].activity_type)) :
        <<i, k, n>> \in {t \in (1..Len(self)) \X (1..MaxObs + 1) \X (1..MaxPairs + 1) :
                          /\ self[t[1]].activities.some
                          /\ t[2] <= Len(self[t[1]].activities.value)
                          /\ t[3] <= Len(self[t[1]].activities.value[t[2]].activities)}}

ActivitiesSet(self) ==
    {self[i].activities.value[k].activities[n].activity_type :
        <<i, k, n>> \in {t \in (1..Len(self)) \X (1..MaxObs + 1) \X (1..MaxPairs + 1) :
                          /\ self[t[1]].activities.some
                          /\ t[2] <= Len(self[t[1]].activities.value)
                          /\ t[3] <= Len(self[t[1]].activities.value[t[2]].activities)}}

\* activities_set.into_iter().collect(): the set in one of its iteration orders
ListActivities ==
    /\ pc = "ready"
    /\ \E order \in IterationOrders(ActivitiesSet(locations)) : out' = order
    /\ op' = "list_activities"
    /\ pc' = "done"
    /\ UNCHANGED <<locations, arg, tmp, idx>>
    /\ UNCHANGED pipeVars

(* Specification of merged_activities, filter_by_activity and             *)
(* list_activities, on a single record with at most MaxObs observations of at most MaxPairs pairs each, *)
(* and on collections of at most MaxLen records that carry at most one     *)
(* observation of at most one pair.                                        *)

RichPairs == {Activity(l, c) : l \in {Str_STILL, Str_ON_FOOT, Str_still}, c \in {40, 80}}
RichObservations == {Activities(0, a) : a \in SeqsUpTo(RichPairs, MaxPairs)}
RichRecords ==
    {Location(0, 0, 0, acts) :
        acts \in {None} \cup {Some(q) : q \in SeqsUpTo(RichObservations, MaxObs)}}

SimplePairs ==
    {Activity(l, 80) : l \in {Str_STILL, Str_ON_FOOT, Str_ON_BICYCLE, Str_still}}
SimpleObservations == {Activities(0, a) : a \in SeqsUpTo(SimplePairs, 1)}
SimpleRecords ==
    {Location(t, 0, 0, acts) :
        t \in {0, 10},
        acts \in {None} \cup {Some(q) : q \in SeqsUpTo(SimpleObservations, 1)}}

InitActivity ==
    /\ locations \in {<<r>> : r \in RichRecords} \cup SeqsUpTo(SimpleRecords, MaxLen)
    /\ arg = <<>>
    /\ op = "none"
    /\ pc = "ready"
    /\ tmp = <<>>
    /\ idx = 0
    /\ out = <<>>
    /\ PipelineIdle

NextActivity == MergedActivities \/ FilterByActivity \/ ListActivities

SpecActivity == InitActivity /\ [][NextActivity]_vars

----------------------------------------------------------------------------
(* Claims about merged_activities and filter_by_activity (SpecActivity) *)

RECURSIVE Concat(_)
Concat(ss) == IF ss = <<>> THEN <<>> ELSE Head(ss) \o Concat(Tail(ss))

\* every (label, confidence) pair of every observation of a record
PairsOf(rec) ==
    IF rec.activities.some
    THEN Concat([k \in 1..Len(rec.activities.value) |-> rec.activities.value[k].activities])
    ELSE <<>>

RECURSIVE SumConfidence(_)
SumConfidence(pairs) ==
    IF pairs = <<>> THEN 0 ELSE Head(pairs).confidence + SumConfidence(Tail(pairs))

NonIncreasing(acts) ==
    \A i \in 1..(Len(acts) - 1) : acts[i].confidence >= acts[i + 1].confidence

EntryLabels(acts) == {acts[i].activity_type : i \in 1..Len(acts)}

Distinct(acts) ==
    \A i, j \in 1..Len(acts) : acts[i].activity_type = acts[j].activity_type => i = j

Merged == Returned("merged_activities")
MergedRecord == locations[arg]

\* C9 as stated: merged_activities(record) returns exactly one entry per
\* distinct label string occurring in the record's observations, whose
\* confidence is the sum of that label's confidences over all pairs of all
\* observations, ordered by non-increasing confidence.
C9_OneEntryPerLabel ==
    Merged =>
        LET pairs == PairsOf(MergedRecord)
        IN  /\ Distinct(out.activities)
            /\ EntryLabels(out.activities) = EntryLabels(pairs)
            /\ \A i \in 1..Len(out.activities) :
                  out.activities[i].confidence =
                     SumConfidence(SelectSeq(pairs,
                        LAMBDA q : q.activity_type = out.activities[i].activity_type))
            /\ NonIncreasing(out.activities)

\* C9 as amended: merged_activities(record) returns exactly one entry per
\* distinct ActivityType to which a label of the record's observations
\* decodes (a label that is not the name of an ActivityType decodes to
\* UNKNOWN), named by that type, whose confidence is the sum of the
\* confidences of all pairs that decode to it, ordered by non-increasing
\* confidence; two observations {STILL:80} give {STILL:160}, and a record
\* without observations gives an empty list.
C9_OneEntryPerActivityType ==
    Merged =>
        LET pairs == PairsOf(MergedRecord)
        IN  /\ Distinct(out.activities)
            /\ EntryLabels(out.activities) =
                  {IntoString(IntoActivityType(l)) : l \in EntryLabels(pairs)}
            /\ \A i \in 1..Len(out.activities) :
                  out.activities[i].confidence =
                     SumConfidence(SelectSeq(pairs,
                        LAMBDA q : IntoString(IntoActivityType(q.activity_type))
                                      = out.activities[i].activity_type))
            /\ NonIncreasing(out.activities)
            /\ MergedRecord.activities =
                   Some(<<Activities(0, <<Activity(Str_STILL, 80)>>),
                          Activities(0, <<Activity(Str_STILL, 80)>>)>>)
                  => out.activities = <<Activity(Str_STILL, 160)>>
            /\ pairs = <<>> => out.activities = <<>>

\* A record with two observations, one of them with a label that is not the
\* name of an ActivityType, has been merged into several entries, one of
\* which sums confidences of both observations.
C9_Witness ==
    /\ Merged
    /\ MergedRecord.activities.some
    /\ Len(MergedRecord.activities.value) = 2
    /\ Str_still \in EntryLabels(PairsOf(MergedRecord))
    /\ Len(out.activities) >= 2
    /\ \E i \in 1..Len(out.activities) : out.activities[i].confidence = 160

Filtered == Returned("filter_by_activity")

FirstOfHighest(acts) ==
    CHOOSE i \in 1..Len(acts) :
        /\ \A j \in 1..Len(acts) : acts[j].confidence <= acts[i].confidence
        /\ \A j \in 1..(i - 1) : acts[j].confidence < acts[i].confidence

LastOfHighest(acts) ==
    CHOOSE i \in 1..Len(acts) :
        /\ \A j \in 1..Len(acts) : acts[j].confidence <= acts[i].confidence
        /\ \A j \in (i + 1)..Len(acts) : acts[j].confidence < acts[i].confidence

\* the observations of a record that have at least one pair
NonEmptyObservations(rec) ==
    IF rec.activities.some
    THEN {k \in 1..Len(rec.activities.value) : rec.activities.value[k].activities # <<>>}
    ELSE {}

SelectedFirstMatches(rec, pattern) ==
    \E k \in NonEmptyObservations(rec) :
        LET acts == rec.activities.value[k].activities
        IN  glob_match(pattern, acts[FirstOfHighest(acts)].activity_type)

SelectedLastMatches(rec, pattern) ==
    \E k \in NonEmptyObservations(rec) :
        LET acts == rec.activities.value[k].activities
        IN  glob_match(pattern, acts[LastOfHighest(acts)].activity_type)

\* pattern "ON_*" keeps records whose only pair is ON_FOOT or ON_BICYCLE and
\* drops records whose only pair is STILL
OnAnyExample ==
    arg = Pat_ON_any =>
        \A i \in 1..Len(locations) :
            LET pairs == PairsOf(locations[i])
            IN  Len(pairs) = 1 =>
                  /\ pairs[1].activity_type \in {Str_ON_FOOT, Str_ON_BICYCLE}
                        => Count(locations[i], out) > 0
                  /\ pairs[1].activity_type = Str_STILL
                        => Count(locations[i], out) = 0

\* C10 as stated: filter_by_activity retains a record if and only if at least
\* one of its observations has a selected label matching the pattern, the
\* selected label being the highest-confidence pair and, among pairs tied for
\* the highest confidence, the one encountered first in stored order.
C10_SelectsFirstOfTied ==
    Filtered =>
        \A i \in 1..Len(locations) :
            Count(locations[i], out) =
               IF SelectedFirstMatches(locations[i], arg)
               THEN Count(locations[i], locations) ELSE 0

\* C10 as amended: filter_by_activity retains a record if and only if at
\* least one of its observations has a selected label matching the pattern,
\* the selected label being the highest-confidence pair and, among pairs tied
\* for the highest confidence, the one encountered last in stored order;
\* records with no observations are dropped; "ON_*" keeps ON_FOOT and
\* ON_BICYCLE records and drops STILL records.
C10_SelectsLastOfTied ==
    Filtered =>
        /\ \A i \in 1..Len(locations) :
              Count(locations[i], out) =
                 IF SelectedLastMatches(locations[i], arg)
                 THEN Count(locations[i], locations) ELSE 0
        /\ \A i \in 1..Len(out) : Count(out[i], locations) > 0
        /\ \A i \in 1..Len(locations) :
              PairsOf(locations[i]) = <<>> => Count(locations[i], out) = 0
        /\ OnAnyExample

\* A record has been retained for an observation whose two pairs tie for the
\* highest confidence, of which only the last matches the pattern.
C10_Witness ==
    /\ Filtered
    /\ Len(out) = 1
    /\ \E k \in NonEmptyObservations(locations[1]) :
          LET acts == locations[1].activities.value[k].activities
          IN  /\ Len(acts) = 2
              /\ acts[1].confidence = acts[2].confidence
              /\ ~glob_match(arg, acts[1].activity_type)
              /\ glob_match(arg, acts[2].activity_type)
    /\ ~SelectedFirstMatches(locations[1], arg)

----------------------------------------------------------------------------
(* filter_by_distance and Location::haversine_distance *)

\* for location in self.iter() { if lp.haversine_distance(&point) < distance
\* { tmp.push(location.clone()) } }; the result is not sorted again
filter_by_distance(self, point, distance) ==
    SelectSeq(self, LAMBDA location :
                       PointHaversineDistance(IntoPoint(location), point) < distance)

\* main builds the centre as Point::new(lat, long)
CenterPoint(lat, long) == [x |-> lat, y |-> long]

Centers == {CenterPoint(0, 0), CenterPoint(Deg60, 0)}
Radii == {1000, 1001, 2001}

FilterByDistance ==
    /\ pc = "ready"
    /\ \E point \in Centers, distance \in Radii :
         /\ arg' = [point |-> point, distance |-> distance]
         /\ out' = filter_by_distance(locations, point, distance)
    /\ op' = "filter_by_distance"
    /\ pc' = "done"
    /\ UNCHANGED <<locations, tmp, idx>>
    /\ UNCHANGED pipeVars

HaversineDistance ==
    /\ pc = "ready"
    /\ \E i, j \in 1..Len(locations) :
         /\ arg' = <<i, j>>
         /\ out' = haversine_distance(locations[i], locations[j])
    /\ op' = "haversine_distance"
    /\ pc' = "done"
    /\ UNCHANGED <<locations, tmp, idx>>
    /\ UNCHANGED pipeVars

(* Specification of the two operations on every collection of at most      *)
(* MaxLen records on the equator or at 60 degrees of latitude.             *)

DistanceRecords ==
    {Location(t, lat, lng, None) : t \in {0, 10}, lat \in {0, Deg60}, lng \in {0, 1, 2}}

InitDistance ==
    /\ locations \in SeqsUpTo(DistanceRecords, MaxLen)
    /\ arg = <<>>
    /\ op = "none"
    /\ pc = "ready"
    /\ tmp = <<>>
    /\ idx = 0
    /\ out = <<>>
    /\ PipelineIdle

NextDistance == FilterByDistance \/ HaversineDistance

SpecDistance == InitDistance /\ [][NextDistance]_vars

----------------------------------------------------------------------------
(* Claims about distances (SpecDistance) *)

\* The great-circle distance in metres between the positions (latA, lngA)
\* and (latB, lngB): latitudes in the latitude role of the formula.
GreatCircle(latA, lngA, latB, lngB) ==
    PointHaversineDistance([x |-> lngA, y |-> latA], [x |-> lngB, y |-> latB])

\* the distance of a record to the centre (lat, long) of a call
DistanceToCenter(rec, point) ==
    GreatCircle(rec.latitude, rec.longitude, point.x, point.y)

\* C11: filter_by_distance(collection, center, radius) returns exactly the
\* input records whose distance to center is strictly less than radius, each
\* retained record once and in the same relative order as in the input.
C11_WithinRadius ==
    Returned("filter_by_distance") =>
        out = SelectSeq(locations,
                        LAMBDA rec : DistanceToCenter(rec, arg.point) < arg.distance)

\* C17: the distance between two records is the great-circle distance
\* between their (latitude, longitude) positions, so two records at latitude
\* 60 degrees that differ by d in longitude are closer than two records on
\* the equator that differ by d in longitude (1000 m per unit of d).
C17_LatitudeInLatitudeRole ==
    Returned("haversine_distance") =>
        LET a == locations[arg[1]]
            b == locations[arg[2]]
        IN  /\ out = GreatCircle(a.latitude, a.longitude, b.latitude, b.longitude)
            /\ (a.latitude = Deg60 /\ b.latitude = Deg60 /\ a.longitude # b.longitude)
                  => out < 1000 * Abs(a.longitude - b.longitude)

----------------------------------------------------------------------------
(* Claims about list_activities (SpecActivity) *)

\* every raw label of every pair of every observation of every record
LabelsOf(coll) == UNION {EntryLabels(PairsOf(coll[i])) : i \in 1..Len(coll)}

\* C12: list_activities returns each raw activity-label string that occurs in
\* any pair of any observation of any record exactly once, and nothing else
\* (raw strings are not mapped to the ActivityType enum), and leaves the
\* collection unchanged.
C12_DistinctRawLabels ==
    [][(op' = "list_activities" /\ pc' = "done") =>
          /\ {out'[i] : i \in 1..Len(out')} = LabelsOf(locations)
          /\ \A i, j \in 1..Len(out') : out'[i] = out'[j] => i = j
          /\ locations' = locations]_vars

\* Labels of a collection in which a label occurs several times and a label
\* that is not the name of an ActivityType occurs have been listed.
C12_Witness ==
    /\ Returned("list_activities")
    /\ Len(locations) >= 2
    /\ \E i, j \in 1..Len(locations) :
          i # j /\ PairsOf(locations[i]) # <<>>
                /\ PairsOf(locations[i]) = PairsOf(locations[j])
    /\ Str_still \in LabelsOf(locations)
    /\ Len(out) = 2

----------------------------------------------------------------------------
(* Activities::top_activities, top_activity and is_similar_type *)

\* Activities::top_activities, for one iteration order of the HashMap
top_activities(self, order) ==
    LET activities == IntoHashMap(self)
        result == [i \in 1..Len(order) |->
                      Activity(IntoString(order[i]), activities[order[i]])]
    IN  SortByConfidenceDesc(result)

\* Activities::top_activity
top_activity(self, order) ==
    LET act == top_activities(self, order)
    IN  IF Len(act) > 0 THEN act[1] ELSE Activity(Str_UNKNOWN, 0)

\* Iterator::take(n) on a Vec
Take(s, n) == SubSeq(s, 1, IF Len(s) < n THEN Len(s) ELSE n)

\* Activities::is_similar_type, for the iteration orders of the two HashMaps
is_similar_type_top1(self, other, order, other_order) ==
    LET top_act == top_activity(self, order)
        other_top_act == Take(top_activities(other, other_order), 1)
    IN  \E i \in 1..Len(other_top_act) :
           other_top_act[i].activity_type = top_act.activity_type

is_similar_type(self, other, order, other_order) ==
    LET top_act == top_activity(self, order)
        other_top_act == Take(top_activities(other, other_order), 3)
    IN  \E i \in 1..Len(other_top_act) :
           other_top_act[i].activity_type = top_act.activity_type

\* a.is_similar_type(b) for two different observations a, b of the first record
IsSimilarType ==
    /\ pc = "ready"
    /\ Len(locations) > 0 /\ locations[1].activities.some
    /\ LET acts == locations[1].activities.value
       IN  \E i, j \in 1..Len(acts) :
             /\ i # j
             /\ \E order \in IterationOrders(DOMAIN IntoHashMap(acts[i])),
                other_order \in IterationOrders(DOMAIN IntoHashMap(acts[j])) :
                /\ arg' = <<i, j>>
                /\ out' = is_similar_type(acts[i], acts[j], order, other_order)
    /\ op' = "is_similar_type"
    /\ pc' = "done"
    /\ UNCHANGED <<locations, tmp, idx>>
    /\ UNCHANGED pipeVars

(* Specification of is_similar_type on a record with two observations: one *)
(* with at most MaxPairs pairs, one with any subset of four labels.        *)

SimilarLabels == <<Str_STILL, Str_ON_FOOT, Str_WALKING, Str_UNKNOWN>>

\* the observation that reports the labels of SimilarLabels chosen by `conf`
\* (0: not reported) in the order of SimilarLabels
SubsetObservation(ts, conf) ==
    LET chosen == SelectSeq(<<1, 2, 3, 4>>, LAMBDA n : conf[n] # 0)
    IN  Activities(ts, [m \in 1..Len(chosen) |->
                           Activity(SimilarLabels[chosen[m]], conf[chosen[m]])])

SubsetObservations ==
    {SubsetObservation(ts, conf) : ts \in {0, 10}, conf \in [1..4 -> {0, 40, 80}]}

InitSimilar ==
    /\ locations \in {<<Location(0, 0, 0, Some(<<a, b>>))>> :
                         a \in RichObservations, b \in SubsetObservations}
    /\ arg = <<>>
    /\ op = "none"
    /\ pc = "ready"
    /\ tmp = <<>>
    /\ idx = 0
    /\ out = <<>>
    /\ PipelineIdle

NextSimilar == IsSimilarType

SpecSimilar == InitSimilar /\ [][NextSimilar]_vars

----------------------------------------------------------------------------
(* Claims about is_similar_type (SpecSimilar) *)

\* the labels of an observation's label list: the ActivityTypes to which its
\* raw labels decode
TypesOf(obs) == {IntoActivityType(l) : l \in EntryLabels(obs.activities)}

\* the confidence of a label in an observation's label list
ConfidenceOf(obs, ty) ==
    SumConfidence(SelectSeq(obs.activities,
                            LAMBDA q : IntoActivityType(q.activity_type) = ty))

\* the labels that can be first in a confidence-descending label list of an
\* observation (several when they tie), or the UNKNOWN sentinel
TopLabels(obs) ==
    IF obs.activities = <<>> THEN {"UNKNOWN"}
    ELSE {ty \in TypesOf(obs) :
             \A other \in TypesOf(obs) : ConfidenceOf(obs, other) <= ConfidenceOf(obs, ty)}

\* ty is among the first three of some / of every confidence-descending label
\* list of obs
CanBeInTop3(obs, ty) ==
    /\ ty \in TypesOf(obs)
    /\ Cardinality({o \in TypesOf(obs) :
                       ConfidenceOf(obs, o) > ConfidenceOf(obs, ty)}) <= 2

MustBeInTop3(obs, ty) ==
    /\ ty \in TypesOf(obs)
    /\ Cardinality({o \in TypesOf(obs) \ {ty} :
                       ConfidenceOf(obs, o) >= ConfidenceOf(obs, ty)}) <= 2

SimilarSelf == locations[1].activities.value[arg[1]]
SimilarOther == locations[1].activities.value[arg[2]]

\* C16: is_similar_type(a, b) is true if and only if the top label of a (the
\* first entry of a's confidence-descending label list, or UNKNOWN when a is
\* empty) is one of the first three entries of b's confidence-descending
\* label list, whatever the confidence magnitudes beyond the ranking and
\* whatever the timestamps; when b has at most three distinct labels it is
\* true exactly when a's top label occurs in b.
C16_TopLabelInTop3 ==
    Returned("is_similar_type") =>
        /\ out => \E ty \in TopLabels(SimilarSelf) : CanBeInTop3(SimilarOther, ty)
        /\ ~out => \E ty \in TopLabels(SimilarSelf) : ~MustBeInTop3(SimilarOther, ty)
        /\ Cardinality(TypesOf(SimilarOther)) <= 3 =>
              /\ out => \E ty \in TopLabels(SimilarSelf) : ty \in TypesOf(SimilarOther)
              /\ ~out => \E ty \in TopLabels(SimilarSelf) : ty \notin TypesOf(SimilarOther)

\* The top label of a occurs in b, but b has four labels of which it is the
\* last: the result is false.
C16_Witness ==
    /\ Returned("is_similar_type")
    /\ ~out
    /\ Cardinality(TypesOf(SimilarOther)) = 4
    /\ \E ty \in TypesOf(SimilarOther) :
          TopLabels(SimilarSelf) = {ty} /\ ~CanBeInTop3(SimilarOther, ty)

----------------------------------------------------------------------------
(* The pipeline of main: a producer thread runs deserialize_streaming, the *)
(* main thread consumes the channel, filters and reports, then joins.      *)

\* Result<Location, _> of decoding one element of the "locations" array
Ok(v) == [ok |-> TRUE, value |-> v]
Err == [ok |-> FALSE]

\* When the main thread has panicked or returned, the process is gone.
ProcessRunning == cpc \notin {"idle", "panic", "exit"}

\* The producer's Sender is dropped when its thread ends, also by a panic.
TxDropped == ppc \in {"done", "panic"}

libVars == <<arg, op, pc, tmp, idx, out>>

\* File::open, seek_to(&json_path!["locations"]).unwrap(), begin_array().unwrap()
ProducerStart ==
    /\ ProcessRunning
    /\ ppc = "start"
    /\ ppc' = IF doc.has_locations THEN "has_next" ELSE "panic"
    /\ UNCHANGED <<locations, libVars, doc, pos, chan, rx, cpc, locations_count,
                   filtered_locations, join_result, cfg>>

\* while json_reader.has_next().unwrap() { let location = deserialize_next().unwrap();
ProducerDecode ==
    /\ ProcessRunning
    /\ ppc = "has_next"
    /\ IF pos < Len(doc.items)
       THEN /\ pos' = pos + 1
            /\ ppc' = IF doc.items[pos + 1].ok THEN "send" ELSE "panic"
       ELSE /\ ppc' = "done"
            /\ pos' = pos
    /\ UNCHANGED <<locations, libVars, doc, chan, rx, cpc, locations_count,
                   filtered_locations, join_result, cfg>>

\* match tx.send(location) { Ok(_) => {}, Err(_) => break }: send fails when
\* the Receiver has been dropped
AfterSend(delivered) == IF delivered THEN "has_next" ELSE "done"

ProducerSend ==
    /\ ProcessRunning
    /\ ppc = "send"
    /\ chan' = IF rx = "alive" THEN Append(chan, doc.items[pos].value) ELSE chan
    /\ ppc' = AfterSend(rx = "alive")
    /\ UNCHANGED <<locations, libVars, doc, pos, rx, cpc, locations_count,
                   filtered_locations, join_result, cfg>>

\* locations.push(loc)
Push_front(v, x) == <<x>> \o v

Push(v, x) == Append(v, x)

\* is the received record skipped by the date range?
OutOfRange(loc) ==
    \/ cfg.start_date.some /\ loc.timestamp < cfg.start_date.value
    \/ cfg.end_date.some /\ loc.timestamp >= cfg.end_date.value

\* if locations.len() >= record_limit { break }
LimitReached(v) ==
    cfg.record_limit.some /\ Len(v) >= cfg.record_limit.value

\* one iteration of `for loc in rx`, for a record that is in the channel
ConsumerRecv ==
    /\ cpc = "recv"
    /\ chan # <<>>
    /\ chan' = Tail(chan)
    /\ locations_count' = locations_count + 1
    /\ IF OutOfRange(Head(chan))
       THEN UNCHANGED <<locations, rx, cpc>>
       ELSE /\ locations' = Push(locations, Head(chan))
            /\ IF LimitReached(locations')
               THEN rx' = "dropped" /\ cpc' = "filter_outliers"
               ELSE UNCHANGED <<rx, cpc>>
    /\ UNCHANGED <<libVars, doc, ppc, pos, filtered_locations, join_result, cfg>>

\* the end of `for loc in rx`: the channel is empty and the Sender is gone
ConsumerClosed ==
    /\ cpc = "recv"
    /\ chan = <<>>
    /\ TxDropped
    /\ rx' = "dropped"
    /\ cpc' = "filter_outliers"
    /\ UNCHANGED <<locations, libVars, doc, ppc, pos, chan, locations_count,
                   filtered_locations, join_result, cfg>>

\* filter_outliers as a function: tmp after the first n iterations
RECURSIVE OutliersPass(_, _)
OutliersPass(self, n) ==
    IF n = 0 THEN <<self[1]>>
    ELSE LET acc == OutliersPass(self, n - 1)
         IN  IF OutlierKeeps(self[n], Last(acc)) THEN Append(acc, self[n]) ELSE acc

filter_outliers_unsorted(self) == OutliersPass(self, Len(self))

filter_outliers(self) == sort_chronological(OutliersPass(self, Len(self)))

\* filtered_locations = locations.clone().filter_outliers();
\* let delta: i64 = (len_before - filtered_locations.len()) as i64;
\* filter_outliers panics on an empty Vec; the usize subtraction panics in a
\* build with overflow checks and wraps in a build without them.
MainFilterOutliers ==
    /\ cpc = "filter_outliers"
    /\ IF locations = <<>>
       THEN cpc' = "panic" /\ UNCHANGED filtered_locations
       ELSE /\ filtered_locations' = filter_outliers(locations)
            /\ IF Len(filter_outliers(locations)) > Len(locations)
               THEN cpc' \in {"panic", "filter_distance"}
               ELSE cpc' = "filter_distance"
    /\ UNCHANGED <<locations, libVars, doc, ppc, pos, chan, rx, locations_count,
                   join_result, cfg>>

\* if let Some(ref center_point_radius) = args.center_point_radius { ... }
MainFilterDistance ==
    /\ cpc = "filter_distance"
    /\ filtered_locations' =
          IF cfg.center_point_radius.some
          THEN LET c == cfg.center_point_radius.value
               IN  filter_by_distance(filtered_locations, CenterPoint(c[1], c[2]), c[3])
          ELSE filtered_locations
    /\ cpc' = "filter_activity"
    /\ UNCHANGED <<locations, libVars, doc, ppc, pos, chan, rx, locations_count,
                   join_result, cfg>>

\* if let Some(activity_type) = args.activity_type { ... }
MainFilterActivity ==
    /\ cpc = "filter_activity"
    /\ filtered_locations' =
          IF cfg.activity_type.some
          THEN filter_by_activity(filtered_locations, cfg.activity_type.value)
          ELSE filtered_locations
    /\ cpc' = "report"
    /\ UNCHANGED <<locations, libVars, doc, ppc, pos, chan, rx, locations_count,
                   join_result, cfg>>

\* the grouping and printing of filtered_locations
MainReport ==
    /\ cpc = "report"
    /\ cpc' = "join"
    /\ UNCHANGED <<locations, libVars, doc, ppc, pos, chan, rx, locations_count,
                   filtered_locations, join_result, cfg>>

\* reader_jh.join().unwrap(): waits for the producer; Err if it panicked
MainJoin ==
    /\ cpc = "join"
    /\ TxDropped
    /\ join_result' = IF ppc = "panic" THEN "err" ELSE "ok"
    /\ cpc' = IF ppc = "panic" THEN "panic" ELSE "exit"
    /\ UNCHANGED <<locations, libVars, doc, ppc, pos, chan, rx, locations_count,
                   filtered_locations, cfg>>

Config(start, end, limit, center, activity) ==
    [start_date |-> start, end_date |-> end, record_limit |-> limit,
     center_point_radius |-> center, activity_type |-> activity]

\* the state of main after thread::spawn
MainStart(document, config) ==
    /\ locations = <<>>
    /\ arg = <<>>
    /\ op = "none"
    /\ pc = "ready"
    /\ tmp = <<>>
    /\ idx = 0
    /\ out = <<>>
    /\ doc = document
    /\ ppc = "start"
    /\ pos = 0
    /\ chan = <<>>
    /\ rx = "alive"
    /\ cpc = "recv"
    /\ locations_count = 0
    /\ filtered_locations = <<>>
    /\ join_result = "none"
    /\ cfg = config

(* Specification of the pipeline on every document of at most MaxDoc array *)
(* elements, well-formed or not, or without the "locations" key, with and  *)
(* without date bounds and record limit.                                   *)

PipelineItems == {Err} \cup {Ok(Location(t, 0, 0, None)) : t \in {0, 10, 20}}

Documents ==
    {[has_locations |-> TRUE, items |-> i] : i \in SeqsUpTo(PipelineItems, MaxDoc)}
       \cup {[has_locations |-> FALSE, items |-> <<>>]}

PipelineConfigs ==
    {Config(s, e, n, None, None) :
        s \in {None, Some(10)}, e \in {None, Some(20)},
        n \in {None, Some(0), Some(1), Some(2)}}

InitPipeline ==
    \E document \in Documents, config \in PipelineConfigs :
        MainStart(document, config)

ProducerNext == ProducerStart \/ ProducerDecode \/ ProducerSend

MainNext ==
    \/ ConsumerRecv
    \/ ConsumerClosed
    \/ MainFilterOutliers
    \/ MainFilterDistance
    \/ MainFilterActivity
    \/ MainReport
    \/ MainJoin

NextPipeline == ProducerNext \/ MainNext

SpecPipeline == InitPipeline /\ [][NextPipeline]_vars

\* Both threads are scheduled as long as they can take a step.
FairSpecPipeline ==
    SpecPipeline /\ WF_vars(ProducerNext) /\ WF_vars(MainNext)

(* Specification of the batch part of main, from the state in which the    *)
(* ingestion loop has ended with any collection of at most MaxLen records  *)
(* in any arrival order, with and without distance and activity filter.    *)

ReportRecords ==
    {Location(t, 0, lng, Some(<<Activities(t, <<Activity(l, 80)>>)>>)) :
        t \in {0, 10}, lng \in {0, 2}, l \in {Str_STILL, Str_ON_FOOT}}

ReportConfigs ==
    {Config(None, None, None, c, a) :
        c \in {None, Some(<<0, 0, 1001>>)}, a \in {None, Some(Pat_ON_any)}}

InitReport ==
    \E coll \in SeqsUpTo(ReportRecords, MaxLen), config \in ReportConfigs :
        /\ locations = coll
        /\ arg = <<>>
        /\ op = "none"
        /\ pc = "ready"
        /\ tmp = <<>>
        /\ idx = 0
        /\ out = <<>>
        /\ doc = [has_locations |-> TRUE, items |-> [i \in 1..Len(coll) |-> Ok(coll[i])]]
        /\ ppc = "done"
        /\ pos = Len(coll)
        /\ chan = <<>>
        /\ rx = "dropped"
        /\ cpc = "filter_outliers"
        /\ locations_count = Len(coll)
        /\ filtered_locations = <<>>
        /\ join_result = "none"
        /\ cfg = config

NextReport ==
    \/ MainFilterOutliers
    \/ MainFilterDistance
    \/ MainFilterActivity
    \/ MainReport
    \/ MainJoin

SpecReport == InitReport /\ [][NextReport]_vars

----------------------------------------------------------------------------
(* Claims about the pipeline (SpecPipeline, FairSpecPipeline, SpecReport) *)

WellFormed == doc.has_locations /\ \A i \in 1..Len(doc.items) : doc.items[i].ok

Unlimited ==
    ~cfg.start_date.some /\ ~cfg.end_date.some /\ ~cfg.record_limit.some

\* the records of a well-formed document, in document order
DocumentRecords == [i \in 1..Len(doc.items) |-> doc.items[i].value]

\* the number of records the producer has sent, while nothing is dropped
SentCount == locations_count + Len(chan)

\* C13: with no time bounds and no record cap, when the "locations" array
\* holds N well-formed records the consumer ends with exactly N records, each
\* delivered exactly once and in document order, and record k is sent on the
\* channel before record k+1 is decoded.
C13_AllRecordsInDocumentOrder ==
    (WellFormed /\ Unlimited) =>
        /\ locations = SubSeq(DocumentRecords, 1, Len(locations))
        /\ chan = SubSeq(DocumentRecords, Len(locations) + 1, Len(locations) + Len(chan))
        /\ cpc # "recv" => locations = DocumentRecords
        /\ pos - SentCount = IF ppc = "send" THEN 1 ELSE 0

\* The ingestion of three well-formed records that are not in time order
\* has ended.
C13_Witness ==
    /\ WellFormed /\ Unlimited
    /\ cpc = "filter_outliers"
    /\ Len(doc.items) = 3
    /\ ~IsSorted(DocumentRecords)
    /\ locations = DocumentRecords

\* the consumer has left the ingestion loop by `break`
StoppedEarly == cpc # "recv" /\ locations # <<>> /\ LimitReached(locations)

\* C14: whenever the consumer stops early and drops its receiving end, the
\* producer's next send attempt fails, and the producer then terminates
\* normally without decoding any further record; hence in every run where
\* the consumer stops early the producer eventually terminates and the final
\* join of the producer completes.
C14_ProducerStopsAndIsJoined ==
    /\ [][(ppc = "send" /\ rx = "dropped" /\ ppc' # ppc)
             => (ppc' = "done" /\ pos' = pos)]_vars
    /\ [][ppc = "done" => (ppc' = "done" /\ pos' = pos)]_vars
    /\ (StoppedEarly ~> (TxDropped /\ join_result # "none"))

\* C15: when a decode failure aborts the producer, no later record is
\* delivered, and the consumer, when it has observed the closure of the
\* channel and before it filters or reports, holds a completion status that
\* distinguishes the failure from a clean end of stream.
C15_FailureIsDistinguished ==
    ppc = "panic" =>
        /\ SentCount <= pos
        /\ (cpc = "filter_outliers" /\ ~StoppedEarly) => join_result = "err"

\* C19: when a record cap n >= 0 is configured the consumer's collection
\* never holds more than n records at any point of the ingestion loop, and
\* records outside the start/end bounds are never stored and do not count
\* towards the cap.
C19_NeverMoreThanCap ==
    /\ cfg.record_limit.some => Len(locations) <= cfg.record_limit.value
    /\ \A i \in 1..Len(locations) : ~OutOfRange(locations[i])

\* C18: in every run that reaches the reporting stage, the collection handed
\* to reporting is sorted ascending by timestamp, for every arrival order and
\* every combination of distance filter and activity filter.
C18_ReportedSorted ==
    cpc = "report" => IsSorted(filtered_locations)

\* A collection that arrived out of time order has reached the reporting
\* stage after both optional filters ran and something was removed.
C18_Witness ==
    /\ cpc = "report"
    /\ ~IsSorted(locations)
    /\ cfg.center_point_radius.some /\ cfg.activity_type.some
    /\ Len(filtered_locations) >= 2
    /\ Len(filtered_locations) < Len(locations)

====
